---- MODULE Spec2Model ----
(***************************************************************************)
(* A state-machine model of the SCOLT encoder (src/scolt.ts).              *)
(*                                                                         *)
(* JSON values are tagged records of one shape, texts (cells, cache keys,  *)
(* canonical keys, references) are sequences of string tokens, and the     *)
(* recursion of processValue is an explicit stack of frames whose locals   *)
(* (`columns`, `canonicalKeyMap`, `rowIndices`) are captured exactly where *)
(* the source captures them.  JavaScript Map objects that the source holds *)
(* by reference (the per-table canonical-key maps) live in a heap `maps`.  *)
(***************************************************************************)
EXTENDS Integers, Sequences, FiniteSets, TLC

VARIABLES
    pc,                   \* "idle" | "process" | "compacted" | "optimized" | "done" | "threw"
    calls,                \* number of parse calls started on this instance
    parsedData,           \* the input tree of the current call
    defaultValues,        \* this.defaultValues
    tableStructure,       \* this.tableStructure
    tableRegistry,        \* this.tableRegistry : table name -> TableData
    tableOrder,           \* insertion order of this.tableRegistry
    arrayReferenceCache,  \* this.arrayReferenceCache : cache key -> reference text
    tableIndexCounters,   \* this.tableIndexCounters
    rootLevelKeys,        \* this.rootLevelKeys
    objectToIndexMap,     \* this.objectToIndexMap : table name -> id of a Map in `maps`
    maps,                 \* heap of the Map<string, number> objects created so far
    stack,                \* call stack of processValue / processArrayValue / processObjectValue
    output,               \* what buildTabularOutput returned
    hist,                 \* observation: the calls of the traversal that completed
    registryLog           \* observation: the columns every row was last rendered
                          \* against, and the rebuilds that took place

vars == <<pc, calls, parsedData, defaultValues, tableStructure, tableRegistry,
          tableOrder, arrayReferenceCache, tableIndexCounters, rootLevelKeys,
          objectToIndexMap, maps, stack, output, hist, registryLog>>

-----------------------------------------------------------------------------
(* Bounds of the model *)

MaxCalls == 2
MaxRepeat == 3

-----------------------------------------------------------------------------
(* JSONValue (src/scolt.ts:24-30), plus JavaScript's undefined *)

Null == [t |-> "null", s |-> <<>>, kids |-> <<>>]
Undefined == [t |-> "undef", s |-> <<>>, kids |-> <<>>]
Num(n) == [t |-> "num", s |-> <<n>>, kids |-> <<>>]
Bool(b) == [t |-> "bool", s |-> <<b>>, kids |-> <<>>]
Str(toks) == [t |-> "str", s |-> toks, kids |-> <<>>]
Arr(items) == [t |-> "arr", s |-> <<>>,
               kids |-> [i \in 1..Len(items) |-> [k |-> "", v |-> items[i]]]]
Obj(pairs) == [t |-> "obj", s |-> <<>>,
               kids |-> [i \in 1..Len(pairs) |-> [k |-> pairs[i][1], v |-> pairs[i][2]]]]

Range(f) == {f[i] : i \in DOMAIN f}

\* value && typeof value === "object"
IsObjectLike(v) == v.t \in {"arr", "obj"}
\* typeof value === "object"
TypeofObject(v) == v.t \in {"arr", "obj", "null"}
IsArray(v) == v.t = "arr"
Nullish(v) == v.t \in {"null", "undef"}
\* a ?? b
Coalesce(a, b) == IF Nullish(a) THEN b ELSE a

\* Object.keys(object), in insertion order
ObjectKeys(v) == [i \in 1..Len(v.kids) |-> v.kids[i].k]
\* key in object  (only evaluated on records and arrays)
HasKey(v, key) == v.t = "obj" /\ \E i \in 1..Len(v.kids) : v.kids[i].k = key
\* object[key]
Get(v, key) ==
    IF HasKey(v, key)
    THEN v.kids[CHOOSE i \in 1..Len(v.kids) : v.kids[i].k = key].v
    ELSE Undefined
Items(v) == [i \in 1..Len(v.kids) |-> v.kids[i].v]

-----------------------------------------------------------------------------
(* Texts as token sequences *)

RECURSIVE Join(_, _)
\* parts.join(sep)
Join(parts, sep) ==
    IF Len(parts) = 0 THEN <<>>
    ELSE IF Len(parts) = 1 THEN parts[1]
    ELSE parts[1] \o <<sep>> \o Join(Tail(parts), sep)

\* the escaping JSON.stringify applies inside a string literal
JsonEscape(toks) ==
    [i \in 1..Len(toks) |->
        IF toks[i] = "\"" THEN "\\\""
        ELSE IF toks[i] = "\\" THEN "\\\\" ELSE toks[i]]
JsonString(toks) == <<"\"">> \o JsonEscape(toks) \o <<"\"">>

RECURSIVE Stringify(_)
\* JSON.stringify(value)
Stringify(v) ==
    CASE v.t = "null" -> <<"null">>
      [] v.t = "undef" -> <<"null">>
      [] v.t = "num" -> v.s
      [] v.t = "bool" -> v.s
      [] v.t = "str" -> JsonString(v.s)
      [] v.t = "arr" ->
            <<"[">> \o Join([i \in 1..Len(v.kids) |-> Stringify(v.kids[i].v)], ",")
                    \o <<"]">>
      [] v.t = "obj" ->
            <<"{">> \o Join([i \in 1..Len(v.kids) |->
                                JsonString(<<v.kids[i].k>>) \o <<":">>
                                    \o Stringify(v.kids[i].v)], ",")
                    \o <<"}">>

RECURSIVE JsToString(_)
\* String(value)
JsToString(v) ==
    CASE v.t = "null" -> <<"null">>
      [] v.t = "undef" -> <<"undefined">>
      [] v.t \in {"num", "bool", "str"} -> v.s
      [] v.t = "obj" -> <<"[object Object]">>
      [] v.t = "arr" ->
            Join([i \in 1..Len(v.kids) |->
                    IF Nullish(v.kids[i].v) THEN <<>> ELSE JsToString(v.kids[i].v)], ",")

IsWhitespace(tok) == tok \in {" ", "\t", "\n"}

\* serializePrimitive(value)
serializePrimitive(v) ==
    CASE Nullish(v) -> <<"null">>
      [] v.t \in {"num", "bool"} -> v.s
      [] v.t = "str" ->
            IF \A i \in 1..Len(v.s) : IsWhitespace(v.s[i]) THEN <<"\"\"">>
            ELSE IF \E i \in 1..Len(v.s) : IsWhitespace(v.s[i]) \/ v.s[i] \in {",", "\""}
                 THEN <<"\"">> \o [i \in 1..Len(v.s) |->
                                      IF v.s[i] = "\"" THEN "\\\"" ELSE v.s[i]]
                              \o <<"\"">>
                 ELSE v.s
      [] OTHER -> JsToString(v)

-----------------------------------------------------------------------------
(* Column order *)

priorityColumns == <<"id", "name", "type", "key">>

\* The names of the model, in String.prototype.localeCompare order
NameOrder == <<"a", "b", "c", "id", "items", "key", "lead", "manager", "members",
               "name", "people", "role", "root", "status", "teams", "type",
               "users", "x", "z">>

\* array.indexOf(x)
IndexOf(seq, x) ==
    IF \E i \in 1..Len(seq) : seq[i] = x
    THEN (CHOOSE i \in 1..Len(seq) : seq[i] = x) - 1
    ELSE -1

\* a.localeCompare(b)
localeCompare(a, b) ==
    IF a = b THEN 0
    ELSE IF IndexOf(NameOrder, a) < IndexOf(NameOrder, b) THEN -1 ELSE 1

\* a comparator without the priority names: plain localeCompare
compareColumnsPlain(a, b) == localeCompare(a, b)

\* the comparator of sortColumnNames
compareColumns(a, b) ==
    LET indexA == IndexOf(priorityColumns, a)
        indexB == IndexOf(priorityColumns, b)
    IN  IF indexA # -1 /\ indexB # -1 THEN indexA - indexB
        ELSE IF indexA # -1 THEN -1
        ELSE IF indexB # -1 THEN 1
        ELSE localeCompare(a, b)

RECURSIVE InsertColumn(_, _)
InsertColumn(sorted, c) ==
    IF Len(sorted) = 0 THEN <<c>>
    ELSE IF compareColumns(c, sorted[Len(sorted)]) < 0
         THEN InsertColumn(SubSeq(sorted, 1, Len(sorted) - 1), c)
                  \o <<sorted[Len(sorted)]>>
         ELSE sorted \o <<c>>

RECURSIVE sortColumnNames(_)
\* columns.sort(comparator): a stable sort
sortColumnNames(columns) ==
    IF Len(columns) = 0 THEN <<>>
    ELSE InsertColumn(sortColumnNames(SubSeq(columns, 1, Len(columns) - 1)),
                      columns[Len(columns)])

RECURSIVE AppendNew(_, _)
\* push every element of `more` that `base` does not hold yet, in order
AppendNew(base, more) ==
    IF Len(more) = 0 THEN base
    ELSE AppendNew(IF more[1] \in Range(base) THEN base ELSE Append(base, more[1]),
                   Tail(more))

\* a schema extraction that looks at the first element only
extractColumnNamesOfFirst(array) ==
    IF Len(array.kids) > 0 /\ array.kids[1].v.t = "obj"
    THEN sortColumnNames(ObjectKeys(array.kids[1].v)) ELSE <<>>

\* extractColumnNames(array): the keys of every record element, first seen first
extractColumnNames(array) ==
    LET RECURSIVE Collect(_, _)
        Collect(acc, i) ==
            IF i > Len(array.kids) THEN acc
            ELSE Collect(IF array.kids[i].v.t = "obj"
                         THEN AppendNew(acc, ObjectKeys(array.kids[i].v))
                         ELSE acc, i + 1)
    IN  sortColumnNames(Collect(<<>>, 1))

hasColumnsChanged(oldColumns, newColumns) ==
    \/ Len(oldColumns) # Len(newColumns)
    \/ ~ \A i \in 1..Len(newColumns) : newColumns[i] = oldColumns[i]

\* a table name that does not depend on the context: one table for all records
resolveTableNameShared(context) == "@root"

\* a naming that ignores tableStructure
resolveTableNameUnmapped(context) == "@" \o context

\* resolveTableName(context)
resolveTableName(context) ==
    LET customMapping == IF context \in DOMAIN tableStructure
                         THEN tableStructure[context] ELSE ""
    IN  IF customMapping # "" THEN "@" \o customMapping ELSE "@" \o context

-----------------------------------------------------------------------------
(* Normalisation and canonical keys *)

\* a configuration lookup that finds no default
DefaultOfNone(columnName) == Undefined

\* this.defaultValues[columnName]
DefaultOf(columnName) ==
    IF columnName \in DOMAIN defaultValues THEN defaultValues[columnName]
    ELSE Undefined

\* a normalisation in which a key that is present keeps its value, null included
applyDefaultsToRowOwnValue(sourceObject, columnNames) ==
    [c \in Range(columnNames) |->
        IF HasKey(sourceObject, c) THEN Get(sourceObject, c)
        ELSE Coalesce(DefaultOf(c), Null)]

\* applyDefaultsToRow(sourceObject, columnNames)
applyDefaultsToRow(sourceObject, columnNames) ==
    [c \in Range(columnNames) |->
        IF HasKey(sourceObject, c)
        THEN Coalesce(Coalesce(Get(sourceObject, c), DefaultOf(c)), Null)
        ELSE Coalesce(DefaultOf(c), Null)]

\* generateCanonicalKey(sourceObject, columnNames), sourceObject a normalized row
generateCanonicalKey(row, columnNames) ==
    <<"{">> \o
    Join([i \in 1..Len(columnNames) |->
            LET c == columnNames[i]
                value == Coalesce(Coalesce(row[c], DefaultOf(c)), Null)
            IN  JsonString(<<c>>) \o <<":">> \o
                (IF IsObjectLike(value) THEN JsonString(Stringify(value))
                 ELSE Stringify(value))], ",")
    \o <<"}">>

\* `${tableName}[${rowIndices.join(",")}]`
RefText(tableName, rowIndices) ==
    <<tableName, "[">> \o
    Join([i \in 1..Len(rowIndices) |-> <<ToString(rowIndices[i])>>], ",") \o <<"]">>

-----------------------------------------------------------------------------
(* The table registry.  R is the registry part of the state:                *)
(*   R.reg = tableRegistry, R.order = its insertion order,                  *)
(*   R.omap = objectToIndexMap, R.maps = the heap of maps,                  *)
(*   R.counters = tableIndexCounters, R.log = registryLog.                  *)

Registry == [reg |-> tableRegistry, order |-> tableOrder, omap |-> objectToIndexMap,
             maps |-> maps, counters |-> tableIndexCounters, log |-> registryLog]

EmptyMap == [key \in {} |-> 0]

\* map.set(key, value)
MapSet(f, key, value) == [x \in DOMAIN f \cup {key} |-> IF x = key THEN value ELSE f[x]]

\* a resolution that never consults the reference cache
resolveReferenceUncached(value, context, R) ==
    IF ~IsObjectLike(value) THEN serializePrimitive(value)
    ELSE IF resolveTableName(context) \notin DOMAIN R.reg THEN <<"null">>
    ELSE RefText(resolveTableName(context),
                 <<Len(R.reg[resolveTableName(context)].rows) - 1>>)

\* a resolution without the guard for a table that is not registered: the
\* lookup of the missing table is rendered as it comes
resolveReferenceUnguarded(value, context, R) ==
    IF ~IsObjectLike(value) THEN serializePrimitive(value)
    ELSE LET cacheKey == Stringify(value) IN
    IF cacheKey \in DOMAIN arrayReferenceCache THEN arrayReferenceCache[cacheKey]
    ELSE LET tableName == resolveTableName(context) IN
    IF tableName \notin DOMAIN R.reg THEN <<"undefined">>
    ELSE LET table == R.reg[tableName]
             columns == table.columns
             normalizedRow == applyDefaultsToRow(value, columns)
             canonicalKey == generateCanonicalKey(normalizedRow, columns)
         IN  IF /\ ~IsArray(value)
                /\ tableName \in DOMAIN R.omap
                /\ canonicalKey \in DOMAIN R.maps[R.omap[tableName]]
             THEN RefText(tableName, <<R.maps[R.omap[tableName]][canonicalKey]>>)
             ELSE RefText(tableName, <<Len(table.rows) - 1>>)

\* resolveReference(value, context), evaluated in registry state R
resolveReference(value, context, R) ==
    IF ~IsObjectLike(value) THEN serializePrimitive(value)
    ELSE LET cacheKey == Stringify(value) IN
    IF cacheKey \in DOMAIN arrayReferenceCache THEN arrayReferenceCache[cacheKey]
    ELSE LET tableName == resolveTableName(context) IN
    IF tableName \notin DOMAIN R.reg THEN <<"null">>
    ELSE LET table == R.reg[tableName]
             columns == table.columns
             normalizedRow == applyDefaultsToRow(value, columns)
             canonicalKey == generateCanonicalKey(normalizedRow, columns)
         IN  IF /\ ~IsArray(value)
                /\ tableName \in DOMAIN R.omap
                /\ canonicalKey \in DOMAIN R.maps[R.omap[tableName]]
             THEN RefText(tableName, <<R.maps[R.omap[tableName]][canonicalKey]>>)
             ELSE RefText(tableName, <<Len(table.rows) - 1>>)

\* the cells of one row: columns.map(columnName => ...) of addRowToTable and
\* rebuildTableWithNewColumns
RenderRow(normalizedRow, columns, R) ==
    [j \in 1..Len(columns) |->
        LET value == normalizedRow[columns[j]]
        IN  IF TypeofObject(value) THEN resolveReference(value, columns[j], R)
            ELSE serializePrimitive(value)]

\* createNewTable(tableName, columns)
createNewTable(R, tableName, columns) ==
    [reg |-> MapSet(R.reg, tableName,
                    [columns |-> columns, rows |-> <<>>, originalData |-> <<>>]),
     order |-> IF tableName \in Range(R.order) THEN R.order
               ELSE Append(R.order, tableName),
     omap |-> MapSet(R.omap, tableName, Len(R.maps) + 1),
     maps |-> Append(R.maps, EmptyMap),
     counters |-> MapSet(R.counters, tableName, 0),
     log |-> [R.log EXCEPT !.rowColumns = MapSet(@, tableName, <<>>)]]

\* a rebuild that renders the source records in reverse order
RebuiltRowsReversed(R, tableName, newColumns) ==
    LET table == R.reg[tableName]
        count == Len(table.originalData)
    IN  [i \in 1..count |->
            RenderRow(applyDefaultsToRow(table.originalData[count + 1 - i], newColumns),
                      newColumns, [R EXCEPT !.reg[tableName].columns = newColumns])]

\* table.originalData.map((item, index) => ...) of rebuildTableWithNewColumns:
\* the rows rendered against the new columns, in the order of originalData.
\* table.columns is assigned first; table.rows and the index map are replaced
\* only after every row has been rendered
RebuiltRows(R, tableName, newColumns) ==
    LET table == R.reg[tableName]
        during == [R EXCEPT !.reg[tableName].columns = newColumns]
    IN  [i \in 1..Len(table.originalData) |->
            RenderRow(applyDefaultsToRow(table.originalData[i], newColumns),
                      newColumns, during)]

\* rebuildTableWithNewColumns(tableName, newColumns)
rebuildTableWithNewColumns(R, tableName, newColumns) ==
    LET table == R.reg[tableName]
        keyOf(i) == generateCanonicalKey(
                        applyDefaultsToRow(table.originalData[i], newColumns), newColumns)
        keys == {keyOf(i) : i \in 1..Len(table.originalData)}
        \* newCanonicalKeyMap.set(canonicalKey, index): the last index wins
        newCanonicalKeyMap ==
            [key \in keys |->
                (CHOOSE i \in 1..Len(table.originalData) :
                    /\ keyOf(i) = key
                    /\ \A j \in 1..Len(table.originalData) : keyOf(j) = key => j <= i) - 1]
    IN  [R EXCEPT !.reg[tableName].columns = newColumns,
                  !.reg[tableName].rows = RebuiltRows(R, tableName, newColumns),
                  !.omap[tableName] = Len(R.maps) + 1,
                  !.maps = Append(R.maps, newCanonicalKeyMap),
                  !.log.rowColumns[tableName] =
                        [i \in 1..Len(table.originalData) |-> newColumns],
                  !.log.rebuilt = @ \cup {[tableName |-> tableName,
                                           rows |-> Len(table.originalData)]}]

\* mergeTableColumns(tableName, newColumns)
mergeTableColumns(R, tableName, newColumns) ==
    LET table == R.reg[tableName]
        mergedColumns == AppendNew(table.columns, newColumns)
        sortedColumns == sortColumnNames(mergedColumns)
    IN  IF hasColumnsChanged(table.columns, sortedColumns)
        THEN rebuildTableWithNewColumns(R, tableName, sortedColumns)
        ELSE R

\* if (!this.tableRegistry.has(tableName)) createNewTable else mergeTableColumns
RegisterColumns(R, tableName, extractedColumns) ==
    IF tableName \notin DOMAIN R.reg
    THEN createNewTable(R, tableName, extractedColumns)
    ELSE mergeTableColumns(R, tableName, extractedColumns)

\* an addRowToTable that writes the normalized fields back into the item it
\* stores: its keys in column order, its absent fields filled in
addRowToTableInPlace(R, tableName, originalItem, normalizedRow, columns, canonicalKey) ==
    LET table == R.reg[tableName]
        row == RenderRow(normalizedRow, columns, R)
        rowIndex == Len(table.rows)
        written == Obj([j \in 1..Len(columns) |-> <<columns[j], normalizedRow[columns[j]]>>])
    IN  [R EXCEPT !.reg[tableName].rows = Append(table.rows, row),
                  !.reg[tableName].originalData = Append(table.originalData, written),
                  !.maps[R.omap[tableName]] = MapSet(@, canonicalKey, rowIndex),
                  !.counters[tableName] = rowIndex + 1,
                  !.log.rowColumns[tableName] = Append(@, columns)]

\* addRowToTable(tableName, originalItem, normalizedRow, columns, canonicalKey)
addRowToTable(R, tableName, originalItem, normalizedRow, columns, canonicalKey) ==
    LET table == R.reg[tableName]
        row == RenderRow(normalizedRow, columns, R)
        rowIndex == Len(table.rows)
    IN  [R EXCEPT !.reg[tableName].rows = Append(table.rows, row),
                  !.reg[tableName].originalData = Append(table.originalData, originalItem),
                  !.maps[R.omap[tableName]] = MapSet(@, canonicalKey, rowIndex),
                  !.counters[tableName] = rowIndex + 1,
                  !.log.rowColumns[tableName] = Append(@, columns)]

\* write a registry state back to the variables
SetRegistry(R) ==
    /\ tableRegistry' = R.reg
    /\ tableOrder' = R.order
    /\ objectToIndexMap' = R.omap
    /\ maps' = R.maps
    /\ tableIndexCounters' = R.counters
    /\ registryLog' = R.log

-----------------------------------------------------------------------------
(* The traversal: processValue, processArrayValue, processObjectValue       *)

\* A stack frame.  fn names the function the frame is in; columns, mapId and
\* rowIndices are the locals `columns`, `canonicalKeyMap` and `rowIndices`;
\* i and j are the positions of the forEach loops over the elements and columns.
\* base is an observation only: the number of rows the table had when the frame
\* captured its locals.
Frame(fn, value, context, tableName, columns, mapId, i, j, rowIndices, base) ==
    [fn |-> fn, value |-> value, context |-> context, tableName |-> tableName,
     columns |-> columns, mapId |-> mapId, i |-> i, j |-> j,
     rowIndices |-> rowIndices, base |-> base]

\* a pending call processValue(value, context)
Call(value, context) == Frame("processValue", value, context, "", <<>>, 0, 0, 0, <<>>, 0)

Top == stack[Len(stack)]
Pop == SubSeq(stack, 1, Len(stack) - 1)
ReplaceTop(f) == [stack EXCEPT ![Len(stack)] = f]

Running(fn) == pc = "process" /\ Len(stack) > 0 /\ Top.fn = fn

\* a cache that never answers
CacheHasNever(value) == FALSE

CacheHas(value) == Stringify(value) \in DOMAIN arrayReferenceCache

RECURSIVE NestedLiteral(_)
\* one rule at every depth: a list is the bracket literal of its elements
\* rendered by this rule, anything else is serialized as a primitive
NestedLiteral(v) ==
    IF IsArray(v)
    THEN <<"[">> \o Join([i \in 1..Len(v.kids) |-> NestedLiteral(v.kids[i].v)], ",")
                 \o <<"]">>
    ELSE serializePrimitive(v)

\* a serialization that applies the one rule at every depth
SerializedArrayNested(array) == NestedLiteral(array)

\* the bracket literal of an array whose first element is no record
\* (src/scolt.ts:162-171)
SerializedArray(array) ==
    <<"[">> \o
    Join([i \in 1..Len(array.kids) |->
            LET item == array.kids[i].v
            IN  IF IsArray(item)
                THEN <<"[">> \o Join([n \in 1..Len(item.kids) |->
                                        serializePrimitive(item.kids[n].v)], ",")
                             \o <<"]">>
                ELSE serializePrimitive(item)], ",")
    \o <<"]">>

\* the bracket literal of an array of records without any key (src/scolt.ts:181-184)
PrimitiveArray(array) ==
    <<"[">> \o
    Join([i \in 1..Len(array.kids) |-> serializePrimitive(array.kids[i].v)], ",")
    \o <<"]">>

\* a disposition that takes only the empty list for a literal
IsLiteralArrayEmptyOnly(array) == Len(array.kids) = 0

\* the array takes one of the three early returns of processArrayValue
IsLiteralArray(array) ==
    IF Len(array.kids) = 0 THEN TRUE
    ELSE IF array.kids[1].v.t # "obj" THEN TRUE
    ELSE Len(extractColumnNames(array)) = 0

LiteralText(array) ==
    IF Len(array.kids) = 0 THEN <<"[", "]">>
    ELSE IF array.kids[1].v.t # "obj" THEN SerializedArray(array)
    ELSE PrimitiveArray(array)

Unchanged_config == UNCHANGED <<calls, parsedData, defaultValues, tableStructure,
                                rootLevelKeys, output>>
Unchanged_registry == UNCHANGED <<tableRegistry, tableOrder, objectToIndexMap, maps,
                                  tableIndexCounters, registryLog>>

\* processValue: the value is no record or list, or its cache key is cached
processValueReturn ==
    /\ Running("processValue")
    /\ IF IsObjectLike(Top.value) THEN CacheHas(Top.value) ELSE TRUE
    /\ stack' = Pop
    /\ hist' = [hist EXCEPT !.hits = @ \cup
                    (IF IsObjectLike(Top.value)
                     THEN {[value |-> Top.value, context |-> Top.context]} ELSE {})]
    /\ UNCHANGED <<pc, arrayReferenceCache>>
    /\ Unchanged_config /\ Unchanged_registry

\* processValue -> processArrayValue, returning a bracket literal
processArrayValueLiteral ==
    /\ Running("processValue")
    /\ IsArray(Top.value) /\ ~CacheHas(Top.value)
    /\ IsLiteralArray(Top.value)
    /\ arrayReferenceCache' =
          MapSet(arrayReferenceCache, Stringify(Top.value), LiteralText(Top.value))
    /\ stack' = Pop
    /\ UNCHANGED <<pc, hist>>
    /\ Unchanged_config /\ Unchanged_registry

\* processValue -> processArrayValue, up to the start of array.forEach
processArrayValueBegin ==
    /\ Running("processValue")
    /\ IsArray(Top.value) /\ ~CacheHas(Top.value)
    /\ ~IsLiteralArray(Top.value)
    /\ LET tableName == resolveTableName(Top.context)
           R == RegisterColumns(Registry, tableName, extractColumnNames(Top.value))
       IN  /\ SetRegistry(R)
           /\ stack' = ReplaceTop(Frame("processArrayValue", Top.value, Top.context,
                                        tableName, R.reg[tableName].columns,
                                        R.omap[tableName], 1, 1, <<>>,
                                        Len(R.reg[tableName].rows)))
    /\ UNCHANGED <<pc, arrayReferenceCache, hist>>
    /\ Unchanged_config

\* one step of columns.forEach inside array.forEach (src/scolt.ts:200-205)
arrayColumn ==
    /\ Running("processArrayValue")
    /\ Top.i <= Len(Top.value.kids) /\ Top.j <= Len(Top.columns)
    /\ LET item == Top.value.kids[Top.i].v
           nestedValue == Get(item, Top.columns[Top.j])
           next == [Top EXCEPT !.j = @ + 1]
       IN  IF Nullish(item)
           THEN /\ pc' = "threw" /\ stack' = <<>>
           ELSE /\ pc' = pc
                /\ stack' = IF IsObjectLike(nestedValue)
                            THEN Append(ReplaceTop(next),
                                        Call(nestedValue, Top.columns[Top.j]))
                            ELSE ReplaceTop(next)
    /\ UNCHANGED <<arrayReferenceCache, hist>>
    /\ Unchanged_config /\ Unchanged_registry

\* the rest of one array.forEach iteration (src/scolt.ts:207-221)
arrayItem ==
    /\ Running("processArrayValue")
    /\ Top.i <= Len(Top.value.kids) /\ Top.j > Len(Top.columns)
    /\ LET item == Top.value.kids[Top.i].v
           normalizedRow == applyDefaultsToRow(item, Top.columns)
           canonicalKey == generateCanonicalKey(normalizedRow, Top.columns)
           canonicalKeyMap == maps[Top.mapId]
       IN  IF ~IsObjectLike(item)
           THEN \* `columnName in sourceObject` on a primitive raises a TypeError
                /\ pc' = "threw" /\ stack' = <<>>
                /\ Unchanged_registry
           ELSE IF canonicalKey \in DOMAIN canonicalKeyMap
           THEN /\ pc' = pc
                /\ stack' = ReplaceTop([Top EXCEPT
                                !.i = @ + 1, !.j = 1,
                                !.rowIndices = Append(@, canonicalKeyMap[canonicalKey])])
                /\ Unchanged_registry
           ELSE /\ pc' = pc
                /\ SetRegistry(addRowToTable(Registry, Top.tableName, item,
                                             normalizedRow, Top.columns, canonicalKey))
                /\ stack' = ReplaceTop([Top EXCEPT
                                !.i = @ + 1, !.j = 1,
                                !.rowIndices =
                                    Append(@, Len(tableRegistry[Top.tableName].rows))])
    /\ UNCHANGED <<arrayReferenceCache, hist>>
    /\ Unchanged_config

\* the end of processArrayValue (src/scolt.ts:224-227)
processArrayValueEnd ==
    /\ Running("processArrayValue")
    /\ Top.i > Len(Top.value.kids)
    /\ arrayReferenceCache' = MapSet(arrayReferenceCache, Stringify(Top.value),
                                     RefText(Top.tableName, Top.rowIndices))
    /\ stack' = Pop
    /\ hist' = [hist EXCEPT !.arrays = @ \cup
                    {[value |-> Top.value, context |-> Top.context,
                      tableName |-> Top.tableName, columns |-> Top.columns,
                      rowIndices |-> Top.rowIndices, base |-> Top.base]}]
    /\ UNCHANGED pc
    /\ Unchanged_config /\ Unchanged_registry

\* processValue -> processObjectValue, up to the start of columns.forEach
processObjectValueBegin ==
    /\ Running("processValue")
    /\ Top.value.t = "obj" /\ ~CacheHas(Top.value)
    /\ LET tableName == resolveTableName(Top.context)
           R == RegisterColumns(Registry, tableName,
                                sortColumnNames(ObjectKeys(Top.value)))
       IN  /\ SetRegistry(R)
           /\ stack' = ReplaceTop(Frame("processObjectValue", Top.value, Top.context,
                                        tableName, R.reg[tableName].columns,
                                        R.omap[tableName], 1, 1, <<>>,
                                        Len(R.reg[tableName].rows)))
    /\ UNCHANGED <<pc, arrayReferenceCache, hist>>
    /\ Unchanged_config

\* a columns.forEach step that passes over the field without processing it
objectColumnSkipping ==
    /\ Running("processObjectValue")
    /\ Top.j <= Len(Top.columns)
    /\ stack' = ReplaceTop([Top EXCEPT !.j = @ + 1])
    /\ UNCHANGED <<pc, arrayReferenceCache, hist>>
    /\ Unchanged_config /\ Unchanged_registry

\* one step of columns.forEach of processObjectValue (src/scolt.ts:247-252)
objectColumn ==
    /\ Running("processObjectValue")
    /\ Top.j <= Len(Top.columns)
    /\ LET nestedValue == Get(Top.value, Top.columns[Top.j])
           next == [Top EXCEPT !.j = @ + 1]
       IN  stack' = IF IsObjectLike(nestedValue)
                    THEN Append(ReplaceTop(next), Call(nestedValue, Top.columns[Top.j]))
                    ELSE ReplaceTop(next)
    /\ UNCHANGED <<pc, arrayReferenceCache, hist>>
    /\ Unchanged_config /\ Unchanged_registry

\* the end of processObjectValue (src/scolt.ts:254-265)
processObjectValueEnd ==
    /\ Running("processObjectValue")
    /\ Top.j > Len(Top.columns)
    /\ LET normalizedRow == applyDefaultsToRow(Top.value, Top.columns)
           canonicalKey == generateCanonicalKey(normalizedRow, Top.columns)
           canonicalKeyMap == maps[Top.mapId]
       IN  IF canonicalKey \notin DOMAIN canonicalKeyMap
           THEN SetRegistry(addRowToTable(Registry, Top.tableName, Top.value,
                                          normalizedRow, Top.columns, canonicalKey))
           ELSE Unchanged_registry
    /\ hist' = [hist EXCEPT !.objects = @ \cup
                    {[value |-> Top.value, context |-> Top.context,
                      tableName |-> Top.tableName]}]
    /\ stack' = Pop
    /\ UNCHANGED <<pc, arrayReferenceCache>>
    /\ Unchanged_config

-----------------------------------------------------------------------------
(* The post-pass: reference compaction                                      *)

MaxIndex == 9

\* the tokens matched by @\w+
AtTokens == {"@" \o NameOrder[i] : i \in 1..Len(NameOrder)}
\* the tokens matched by \d+
IsDigits(tok) == \E n \in 0..MaxIndex : ToString(n) = tok
\* Number(token)
DigitValue(tok) == CHOOSE n \in 0..MaxIndex : ToString(n) = tok

RECURSIVE SplitNumbers(_, _)
\* text.split(",").map(Number); an empty piece is Number("") = 0
SplitNumbers(toks, piece) ==
    LET number == IF Len(piece) = 0 THEN 0 ELSE DigitValue(piece[1])
    IN  IF Len(toks) = 0 THEN <<number>>
        ELSE IF toks[1] = "," THEN <<number>> \o SplitNumbers(Tail(toks), <<>>)
        ELSE SplitNumbers(Tail(toks), Append(piece, toks[1]))

RECURSIVE InsertNumber(_, _)
InsertNumber(sorted, n) ==
    IF Len(sorted) = 0 THEN <<n>>
    ELSE IF n < sorted[Len(sorted)]
         THEN InsertNumber(SubSeq(sorted, 1, Len(sorted) - 1), n)
                  \o <<sorted[Len(sorted)]>>
         ELSE sorted \o <<n>>

RECURSIVE SortNumbers(_)
\* indices.sort((a, b) => a - b)
SortNumbers(indices) ==
    IF Len(indices) = 0 THEN <<>>
    ELSE InsertNumber(SortNumbers(SubSeq(indices, 1, Len(indices) - 1)),
                      indices[Len(indices)])

\* reference.match(/^(@\w+)\[([\d,]+)\]$/)
MatchesIndexed(text) ==
    /\ Len(text) >= 4
    /\ text[1] \in AtTokens
    /\ text[2] = "["
    /\ text[Len(text)] = "]"
    /\ \A i \in 3..(Len(text) - 1) : text[i] = "," \/ IsDigits(text[i])
MatchedIndices(text) == SplitNumbers(SubSeq(text, 3, Len(text) - 1), <<>>)

\* isSequentialFullTableReference(indices, totalRows)
isSequentialFullTableReference(indices, totalRows) ==
    /\ Len(indices) = totalRows
    /\ \A i \in 1..Len(indices) : indices[i] = i - 1

\* the rewrite both passes apply to one reference text
CompactReference(reference, reg) ==
    IF ~MatchesIndexed(reference) THEN reference
    ELSE LET tableName == reference[1]
             indices == SortNumbers(MatchedIndices(reference))
         IN  IF tableName \notin DOMAIN reg THEN reference
             ELSE IF isSequentialFullTableReference(indices, Len(reg[tableName].rows))
                  THEN <<tableName>>
                  ELSE reference

\* compactArrayReferences()
compactArrayReferences ==
    /\ pc = "process" /\ stack = <<>>
    /\ arrayReferenceCache' =
          [key \in DOMAIN arrayReferenceCache |->
              CompactReference(arrayReferenceCache[key], tableRegistry)]
    /\ pc' = "compacted"
    /\ UNCHANGED <<stack, hist>>
    /\ Unchanged_config /\ Unchanged_registry

\* optimizeTableReferences()
optimizeTableReferences ==
    /\ pc = "compacted"
    /\ tableRegistry' =
          [name \in DOMAIN tableRegistry |->
              [tableRegistry[name] EXCEPT !.rows =
                  [r \in 1..Len(@) |->
                      [c \in 1..Len(@[r]) |-> CompactReference(@[r][c], tableRegistry)]]]]
    /\ pc' = "optimized"
    /\ UNCHANGED <<stack, hist, arrayReferenceCache, tableOrder, objectToIndexMap, maps,
                   tableIndexCounters, registryLog>>
    /\ Unchanged_config

-----------------------------------------------------------------------------
(* The dependency order and the output                                      *)

RECURSIVE ConcatTokens(_)
ConcatTokens(toks) == IF Len(toks) = 0 THEN "" ELSE toks[1] \o ConcatTokens(Tail(toks))

\* cell.split(/[\[{]/)[0]
BeforeBracket(cell) ==
    LET stops == {i \in 1..Len(cell) : cell[i] \in {"[", "{"}}
        stop == IF stops = {} THEN Len(cell) + 1
                ELSE CHOOSE i \in stops : \A k \in stops : i <= k
    IN  ConcatTokens(SubSeq(cell, 1, stop - 1))

\* typeof cell === "string" && cell.startsWith("@")
StartsWithAt(cell) == Len(cell) > 0 /\ cell[1] \in AtTokens

RECURSIVE FlattenRows(_)
\* the cells of all rows, row by row
FlattenRows(rows) == IF Len(rows) = 0 THEN <<>> ELSE rows[1] \o FlattenRows(Tail(rows))

\* the dependencies of one table, in Set insertion order (src/scolt.ts:584-595)
TableDependencies(tableName, table) ==
    LET cells == FlattenRows(table.rows)
        RECURSIVE Collect(_, _)
        Collect(acc, n) ==
            IF n > Len(cells) THEN acc
            ELSE Collect(IF /\ StartsWithAt(cells[n])
                            /\ BeforeBracket(cells[n]) # tableName
                            /\ BeforeBracket(cells[n]) \notin Range(acc)
                         THEN Append(acc, BeforeBracket(cells[n]))
                         ELSE acc, n + 1)
    IN  Collect(<<>>, 1)

\* buildDependencyGraph()
buildDependencyGraph(reg) ==
    [tableName \in DOMAIN reg |-> TableDependencies(tableName, reg[tableName])]

RECURSIVE visitNode(_, _, _)
RECURSIVE visitDependencies(_, _, _, _)
RECURSIVE visitNodeRevisiting(_, _, _)
\* a visitNode that takes a node met again while in progress as finished and
\* emits it on the spot
visitNodeRevisiting(graph, node, st) ==
    IF node \in st.visitedNodes THEN st
    ELSE IF node \in st.visitingNodes
    THEN [st EXCEPT !.sortedOrder = Append(@, node)]
    ELSE LET entered == [st EXCEPT !.visitingNodes = @ \cup {node}]
             after == visitDependencies(graph, graph[node], 1, entered)
         IN  [sortedOrder |-> Append(after.sortedOrder, node),
              visitedNodes |-> after.visitedNodes \cup {node},
              visitingNodes |-> after.visitingNodes \ {node}]

\* visitNode(node) of computeTopologicalOrder; st holds sortedOrder, visitedNodes
\* and visitingNodes
visitNode(graph, node, st) ==
    IF node \in st.visitedNodes \/ node \in st.visitingNodes THEN st
    ELSE LET entered == [st EXCEPT !.visitingNodes = @ \cup {node}]
             after == visitDependencies(graph, graph[node], 1, entered)
         IN  [sortedOrder |-> Append(after.sortedOrder, node),
              visitedNodes |-> after.visitedNodes \cup {node},
              visitingNodes |-> after.visitingNodes \ {node}]
visitDependencies(graph, dependencies, k, st) ==
    IF k > Len(dependencies) THEN st
    ELSE visitDependencies(graph, dependencies, k + 1,
                           IF dependencies[k] \in DOMAIN graph
                           THEN visitNode(graph, dependencies[k], st)
                           ELSE st)

RECURSIVE VisitAllBackwards(_, _, _, _)
\* an iteration over the tables that starts the visits from the table
\* registered last
VisitAllBackwards(graph, order, k, st) ==
    IF k > Len(order) THEN st
    ELSE VisitAllBackwards(graph, order, k + 1,
                           visitNode(graph, order[Len(order) + 1 - k], st))

RECURSIVE VisitAll(_, _, _, _)
VisitAll(graph, order, k, st) ==
    IF k > Len(order) THEN st
    ELSE VisitAll(graph, order, k + 1, visitNode(graph, order[k], st))

\* the tables in the order they were registered, dependencies ignored
computeTopologicalOrderInserted(reg, order) == order

\* computeTopologicalOrder()
computeTopologicalOrder(reg, order) ==
    VisitAll(buildDependencyGraph(reg), order, 1,
             [sortedOrder |-> <<>>, visitedNodes |-> {}, visitingNodes |-> {}]).sortedOrder

\* tableName.slice(1)
KeyNameOf(tableName) ==
    IF \E n \in Range(NameOrder) : "@" \o n = tableName
    THEN CHOOSE n \in Range(NameOrder) : "@" \o n = tableName
    ELSE ""

\* the tables of the independent-table section, in emission order
\* (src/scolt.ts:485-492); only the header name, the columns and the rows of
\* formatTableOutput are kept
TableLines(reg, order) ==
    LET dependencyOrder == computeTopologicalOrder(reg, order)
        emitted(tableName) ==
            /\ tableName # "@root"
            /\ KeyNameOf(tableName) \notin rootLevelKeys
            /\ tableName \in DOMAIN reg
            /\ Len(reg[tableName].rows) > 0
        RECURSIVE Collect(_, _)
        Collect(acc, k) ==
            IF k > Len(dependencyOrder) THEN acc
            ELSE Collect(IF emitted(dependencyOrder[k])
                         THEN Append(acc, [name |-> dependencyOrder[k],
                                           columns |-> reg[dependencyOrder[k]].columns,
                                           rows |-> reg[dependencyOrder[k]].rows])
                         ELSE acc, k + 1)
    IN  Collect(<<>>, 1)

\* reference.match(/^(@\w+)(\[.*)?$/)
MatchesTableReference(text) ==
    /\ Len(text) >= 1
    /\ text[1] \in AtTokens
    /\ Len(text) > 1 => text[2] = "["

\* one line of buildRootOutput: kind "table" is formatRootTable(key, table),
\* kind "ref" is `#${key}: ${reference}`, kind "text" is a bare text
RootLine(kind, key, columns, rows, text) ==
    [kind |-> kind, key |-> key, columns |-> columns, rows |-> rows, text |-> text]

\* buildRootOutput(rootData)
buildRootOutput(rootData) ==
    IF IsArray(rootData)
    THEN <<RootLine("text", "", <<>>, <<>>, resolveReference(rootData, "root", Registry))>>
    ELSE IF rootData.t = "obj"
    THEN [i \in 1..Len(rootData.kids) |->
            LET key == rootData.kids[i].k
                reference == resolveReference(rootData.kids[i].v, key, Registry)
            IN  IF /\ MatchesTableReference(reference)
                   /\ reference[1] = resolveTableName(key)
                   /\ reference[1] \in DOMAIN tableRegistry
                THEN RootLine("table", key, tableRegistry[reference[1]].columns,
                              tableRegistry[reference[1]].rows, <<>>)
                ELSE RootLine("ref", key, <<>>, <<>>, reference)]
    ELSE <<RootLine("text", "", <<>>, <<>>, JsToString(rootData))>>

NoOutput == [tables |-> <<>>, root |-> <<>>]

\* buildTabularOutput(rootData)
buildTabularOutput ==
    /\ pc = "optimized"
    /\ output' = [tables |-> TableLines(tableRegistry, tableOrder),
                  root |-> buildRootOutput(parsedData)]
    /\ pc' = "done"
    /\ UNCHANGED <<calls, parsedData, defaultValues, tableStructure, rootLevelKeys,
                   stack, hist, arrayReferenceCache>>
    /\ Unchanged_registry

-----------------------------------------------------------------------------
(* Inputs of parse                                                          *)

n1 == Num("1")
n2 == Num("2")
sx == Str(<<"x">>)
recAdmin == Obj(<<<<"id", n1>>, <<"role", Str(<<"admin">>)>>>>)
rec1 == Obj(<<<<"id", n1>>>>)
rec2 == Obj(<<<<"id", n2>>>>)
rec2b == Obj(<<<<"id", n2>>, <<"b", n1>>>>)
recNamed == Obj(<<<<"id", n1>>, <<"name", sx>>>>)
recZ == Obj(<<<<"z", n1>>>>)

\* an array of n copies of a value
Repeat(v, n) == Arr([i \in 1..n |-> v])

\* The documents of the specification's scenarios and of the README, cut down
\* to the fields that matter
ScenarioInputs ==
    {   \* N structurally identical records in one array
        Obj(<<<<"users", Repeat(recAdmin, n)>>>>) : n \in 1..MaxRepeat } \cup
    {   \* the same, the record holding a field named like its own array
        Obj(<<<<"users", Repeat(Obj(<<<<"users", recZ>>>>), n)>>>>) : n \in 1..MaxRepeat } \cup
    {   \* sparse fields and defaults
        Obj(<<<<"users", Arr(<<rec1, Obj(<<<<"id", n2>>, <<"status", sx>>>>)>>)>>>>),
        Obj(<<<<"users", Arr(<<Obj(<<<<"b", n1>>, <<"id", n1>>, <<"a", n2>>,
                                     <<"name", sx>>>>), rec2>>)>>>>),
        \* identical records under two contexts
        Obj(<<<<"manager", recNamed>>, <<"lead", recNamed>>>>),
        \* one array shared by two parents
        Obj(<<<<"teams", Arr(<<Obj(<<<<"id", n1>>, <<"members", Arr(<<rec2, rec1>>)>>>>),
                               Obj(<<<<"id", n2>>, <<"members", Arr(<<rec2, rec1>>)>>>>)>>)>>>>),
        \* a record nested under its own key, and a tree of items
        Obj(<<<<"a", Obj(<<<<"a", Obj(<<<<"b", n1>>>>)>>, <<"c", n2>>>>)>>>>),
        Obj(<<<<"items", Arr(<<Obj(<<<<"id", n1>>,
                                     <<"items", Arr(<<Obj(<<<<"id", n2>>, <<"x", n1>>>>)>>)>>>>),
                               rec1>>)>>>>),
        \* a nested table named like a scalar top-level key
        Obj(<<<<"a", Obj(<<<<"b", Obj(<<<<"x", n1>>>>)>>>>)>>, <<"b", n1>>>>),
        \* bare top-level values
        Arr(<<rec1, rec2>>),
        Arr(<<n1, Arr(<<n2, n1>>), Arr(<<Arr(<<n1, n2>>)>>)>>),
        Arr(<<>>),
        Arr(<<Obj(<<>>)>>),
        n1,
        Null,
        \* record arrays with a later element that is no record
        Obj(<<<<"items", Arr(<<rec1, Null>>)>>>>),
        Obj(<<<<"items", Arr(<<rec1, n1>>)>>>>),
        Obj(<<<<"items", Arr(<<rec1, Arr(<<rec2>>)>>)>>>>),
        \* lists whose first element is no record, with records after it
        Obj(<<<<"items", Arr(<<n1, rec1>>)>>>>),
        Obj(<<<<"items", Arr(<<Null, rec1, Arr(<<rec1>>)>>)>>>>),
        Arr(<<Arr(<<n1>>), rec2b>>),
        \* lists nested three deep, with strings and nulls inside
        Obj(<<<<"x", Arr(<<Arr(<<Null, Str(<<"a", " ", "b">>)>>),
                           Arr(<<Arr(<<Null, n1>>), Str(<<"a", ",", "b">>)>>),
                           Str(<<"a", " ", "b">>)>>)>>>>),
        \* a record that lacks a field another record of its array has
        Obj(<<<<"items", Arr(<<rec1, Obj(<<<<"id", n2>>, <<"x", n1>>>>)>>)>>>>),
        \* equal records whose keys were inserted in different orders
        Obj(<<<<"users", Arr(<<Obj(<<<<"id", n1>>, <<"b", n1>>>>),
                               Obj(<<<<"b", n1>>, <<"id", n1>>>>)>>)>>>>),
        Obj(<<<<"items", Arr(<<Obj(<<<<"id", n1>>,
                                     <<"x", Obj(<<<<"a", n1>>, <<"b", n2>>>>)>>>>),
                               Obj(<<<<"x", Obj(<<<<"b", n2>>, <<"a", n1>>>>)>>,
                                     <<"id", n1>>>>)>>)>>>>),
        \* a field that is null in one record and absent in the next
        Obj(<<<<"items", Arr(<<Obj(<<<<"id", n1>>, <<"b", Null>>>>), rec1>>)>>>>),
        \* a record of a table nested inside another record of that table,
        \* each with a record field of its own
        Obj(<<<<"items", Arr(<<Obj(<<<<"a", Obj(<<<<"x", n1>>>>)>>,
                                     <<"items", Arr(<<Obj(<<<<"b", Obj(<<<<"x", n1>>>>)>>>>)>>)>>>>)>>)>>>>),
        \* a record nested under its own key without a new column, then a
        \* record that brings the table a new column
        Arr(<<Obj(<<<<"a", Obj(<<<<"a", Obj(<<<<"c", n1>>>>)>>, <<"c", n2>>>>)>>>>),
              Obj(<<<<"a", recZ>>>>)>>),
        \* a string that starts like a reference
        Obj(<<<<"a", Obj(<<<<"name", Str(<<"@b">>)>>>>)>>>>)
    }

\* Two-field documents over a pool of values: every combination of a value
\* under `a` and a value under `items`, in both key orders
Pool == {n1, rec1, rec2b, Arr(<<rec1>>), Arr(<<rec1, rec2b>>), Arr(<<rec2b, rec1>>),
         Obj(<<<<"items", rec2b>>>>), Obj(<<<<"a", Arr(<<rec1>>)>>>>)}

PairInputs ==
    {Obj(<<<<"a", v>>, <<"items", w>>>>) : v \in Pool, w \in Pool} \cup
    {Obj(<<<<"items", w>>, <<"a", v>>>>) : v \in Pool, w \in Pool}

Inputs == ScenarioInputs \cup PairInputs

NoEntries == [key \in {} |-> Null]

\* the configurations: SCOLTConfig (src/scolt.ts:13-16)
Configs ==
    { [defaultValues |-> NoEntries, tableStructure |-> NoEntries],
      [defaultValues |-> [status |-> Str(<<"active">>), b |-> Num("0")],
       tableStructure |-> NoEntries],
      [defaultValues |-> NoEntries,
       tableStructure |-> [users |-> "people", a |-> "items", x |-> ""]],
      \* a default that is a record
      [defaultValues |-> [x |-> rec1], tableStructure |-> NoEntries] }

-----------------------------------------------------------------------------
(* parse and the specification                                              *)

NoHistory == [hits |-> {}, arrays |-> {}, objects |-> {}, fresh |-> <<>>]
NoRegistryLog == [rowColumns |-> NoEntries, rebuilt |-> {}]

\* the state after the constructor (src/scolt.ts:41-50)
Init ==
    /\ pc = "idle"
    /\ calls = 0
    /\ parsedData = Null
    /\ defaultValues = NoEntries
    /\ tableStructure = NoEntries
    /\ tableRegistry = NoEntries
    /\ tableOrder = <<>>
    /\ arrayReferenceCache = NoEntries
    /\ tableIndexCounters = NoEntries
    /\ rootLevelKeys = {}
    /\ objectToIndexMap = NoEntries
    /\ maps = <<>>
    /\ stack = <<>>
    /\ output = NoOutput
    /\ hist = NoHistory
    /\ registryLog = NoRegistryLog

\* an initialize() that keeps the reference cache of the call before
initializeKeepingCache ==
    /\ tableRegistry' = NoEntries
    /\ tableOrder' = <<>>
    /\ UNCHANGED arrayReferenceCache
    /\ tableIndexCounters' = NoEntries
    /\ objectToIndexMap' = NoEntries
    /\ maps' = <<>>

\* initialize() (src/scolt.ts:52-58); rootLevelKeys is emptied here and filled
\* by parse, which the action parse does in one assignment
initialize ==
    /\ tableRegistry' = NoEntries
    /\ tableOrder' = <<>>
    /\ arrayReferenceCache' = NoEntries
    /\ tableIndexCounters' = NoEntries
    /\ objectToIndexMap' = NoEntries
    /\ maps' = <<>>

\* parse(data, config) up to the call of processValue (src/scolt.ts:65-85).
\* hist.fresh observes the output of the call before when that call had the
\* same data and configuration and returned
parse ==
    /\ pc \in {"idle", "done", "threw"}
    /\ calls < MaxCalls
    /\ \E data \in Inputs, config \in Configs :
        /\ parsedData' = data
        /\ defaultValues' = config.defaultValues
        /\ tableStructure' = config.tableStructure
        /\ rootLevelKeys' = IF data.t = "obj" THEN Range(ObjectKeys(data)) ELSE {}
        /\ stack' = <<Call(data, "root")>>
        /\ hist' = [NoHistory EXCEPT !.fresh =
                        IF /\ pc = "done" /\ data = parsedData
                           /\ config.defaultValues = defaultValues
                           /\ config.tableStructure = tableStructure
                        THEN <<output>> ELSE <<>>]
    /\ calls' = calls + 1
    /\ initialize
    /\ pc' = "process"
    /\ output' = NoOutput
    /\ registryLog' = NoRegistryLog

Next ==
    \/ parse
    \/ processValueReturn
    \/ processArrayValueLiteral
    \/ processArrayValueBegin
    \/ arrayColumn
    \/ arrayItem
    \/ processArrayValueEnd
    \/ processObjectValueBegin
    \/ objectColumn
    \/ processObjectValueEnd
    \/ compactArrayReferences
    \/ optimizeTableReferences
    \/ buildTabularOutput

Spec == Init /\ [][Next]_vars

-----------------------------------------------------------------------------
(* Properties                                                               *)

\* the canonical key of a source record under a column list
CanonicalKeyOf(record, columns) ==
    generateCanonicalKey(applyDefaultsToRow(record, columns), columns)

TraversalOver == pc \in {"compacted", "optimized", "done"}

\* C1: in every reachable state every row of every table has exactly as many
\* cells as the table currently has columns.
C1_RowsMatchColumns ==
    \A name \in DOMAIN tableRegistry :
        \A r \in 1..Len(tableRegistry[name].rows) :
            Len(tableRegistry[name].rows[r]) = Len(tableRegistry[name].columns)

\* an array of one or more copies of one record and nothing else
AllSameRecord(array) ==
    /\ Len(array.kids) >= 1
    /\ array.kids[1].v.t = "obj"
    /\ \A i \in 1..Len(array.kids) : array.kids[i].v = array.kids[1].v

\* the table held no row equal to the array's record when the array was entered
FreshAtEntry(h) ==
    \A i \in 1..h.base :
        CanonicalKeyOf(tableRegistry[h.tableName].originalData[i], h.columns)
            # CanonicalKeyOf(h.value.kids[1].v, h.columns)

\* C2: an array of N structurally identical records, met while its table holds
\* no such record, adds exactly one row for them, and the array's reference
\* before compaction lists that one row index N times.
C2_DedupIdempotence ==
    \A h \in hist.arrays :
        (AllSameRecord(h.value) /\ FreshAtEntry(h)) =>
            /\ Len(h.rowIndices) = Len(h.value.kids)
            /\ \A k \in 1..Len(h.rowIndices) : h.rowIndices[k] = h.rowIndices[1]
            /\ h.rowIndices[1] >= h.base

\* row i of every table renders source record i: it has one cell per column it
\* was rendered against, and every cell of a scalar field is the text of that
\* field of the record
RowsDescribeRecords(reg, log) ==
    \A name \in DOMAIN reg :
        /\ Len(reg[name].rows) = Len(reg[name].originalData)
        /\ Len(log.rowColumns[name]) = Len(reg[name].rows)
        /\ \A i \in 1..Len(reg[name].rows) :
              LET columns == log.rowColumns[name][i]
                  normalizedRow == applyDefaultsToRow(reg[name].originalData[i], columns)
              IN  /\ Len(reg[name].rows[i]) = Len(columns)
                  /\ \A c \in 1..Len(columns) :
                        ~TypeofObject(normalizedRow[columns[c]]) =>
                            reg[name].rows[i][c] = serializePrimitive(normalizedRow[columns[c]])

\* C3: within one parse call no step removes, reorders or renumbers the source
\* records of a table: a record that has row index i keeps it through every
\* later merge and rebuild, and row i still renders that record, so an index
\* emitted earlier still denotes the same record.
C3_RowOrderStable ==
    [][calls' = calls =>
        /\ \A name \in DOMAIN tableRegistry :
            /\ name \in DOMAIN tableRegistry'
            /\ Len(tableRegistry'[name].originalData) >= Len(tableRegistry[name].originalData)
            /\ \A i \in 1..Len(tableRegistry[name].originalData) :
                  tableRegistry'[name].originalData[i] = tableRegistry[name].originalData[i]
        /\ RowsDescribeRecords(tableRegistry', registryLog')
    ]_vars

\* a table that held two or more rows was rebuilt against a merged schema
C3_Witness ==
    \E h \in registryLog.rebuilt :
        /\ h.rows >= 2
        /\ Len(tableRegistry[h.tableName].rows) > h.rows


\* C4: after the post-pass the cached reference of a record array is the bare
\* table name if and only if the array's index list, in the order it was
\* produced, is exactly 0,1,...,rowCount-1.
C4_CompactionInOrder ==
    TraversalOver =>
        \A h \in hist.arrays :
            LET rowCount == Len(tableRegistry[h.tableName].rows)
            IN  (arrayReferenceCache[Stringify(h.value)] = <<h.tableName>>)
                    <=> (h.rowIndices = [i \in 1..rowCount |-> i - 1])

\* the tables whose header and rows are part of the output
EmittedTables ==
    {output.tables[i].name : i \in 1..Len(output.tables)} \cup
    {resolveTableName(output.root[i].key) :
        i \in {k \in 1..Len(output.root) : output.root[k].kind = "table"}}

\* the cell and line texts of the output
CellsOf(rows) == UNION {Range(rows[r]) : r \in 1..Len(rows)}

EmittedTexts ==
    UNION {CellsOf(output.tables[i].rows) : i \in 1..Len(output.tables)}
    \cup UNION {CellsOf(output.root[i].rows) : i \in 1..Len(output.root)}
    \cup {output.root[i].text :
            i \in {k \in 1..Len(output.root) : output.root[k].kind # "table"}}

\* C5: every reference to a registered table that appears in the output names
\* a table whose header and rows are emitted in the same output.
C5_ReferencesResolvable ==
    pc = "done" =>
        \A text \in EmittedTexts :
            (MatchesTableReference(text) /\ text[1] \in DOMAIN tableRegistry)
                => text[1] \in EmittedTables

\* the position the column rule gives a name: id, name, type, key first, the
\* other names after them in lexicographic order
ColumnRank(c) ==
    CASE c = "id" -> 1
      [] c = "name" -> 2
      [] c = "type" -> 3
      [] c = "key" -> 4
      [] OTHER -> 5 + IndexOf(NameOrder, c)

\* C6: in every reachable state the column list of every table is strictly
\* increasing in the column rule, so it holds no name twice.
C6_ColumnsOrdered ==
    \A name \in DOMAIN tableRegistry :
        LET columns == tableRegistry[name].columns
        IN  \A i, j \in 1..Len(columns) :
                i < j => ColumnRank(columns[i]) < ColumnRank(columns[j])

\* the columns {b, id, a, name} are laid out as id,name,a,b
C6_Witness ==
    \E name \in DOMAIN tableRegistry :
        /\ tableRegistry[name].columns = <<"id", "name", "a", "b">>
        /\ Len(tableRegistry[name].rows) > 0

\* C7: for every row and every column with a configured scalar default, the cell is
\* the record's own value when the record has the field with a non-null
\* scalar value, and the configured default when the record lacks the field.
C7_DefaultSubstitution ==
    \A name \in DOMAIN tableRegistry :
        LET table == tableRegistry[name]
        IN  \A r \in 1..Len(table.rows) : \A c \in 1..Len(table.columns) :
                LET col == table.columns[c]
                    record == table.originalData[r]
                    own == Get(record, col)
                IN  (/\ col \in DOMAIN defaultValues /\ record.t = "obj"
                     /\ defaultValues[col].t \in {"num", "bool", "str"}) =>
                        /\ (HasKey(record, col) /\ own.t \in {"num", "bool", "str"}) =>
                              /\ c <= Len(table.rows[r])
                              /\ table.rows[r][c] = serializePrimitive(own)
                        /\ ~HasKey(record, col) =>
                              /\ c <= Len(table.rows[r])
                              /\ table.rows[r][c] = serializePrimitive(defaultValues[col])

\* the records the traversal registered: bare records and the record elements
\* of record arrays, each with the context and the table it was registered in
Registered ==
    {[value |-> h.value, context |-> h.context, tableName |-> h.tableName] :
        h \in hist.objects}
    \cup UNION {{[value |-> h.value.kids[i].v, context |-> h.context,
                  tableName |-> h.tableName] :
                    i \in {k \in 1..Len(h.value.kids) : h.value.kids[k].v.t = "obj"}} :
                h \in hist.arrays}

\* the table holds a row whose source record is canonically equal to the record
HoldsRowFor(tableName, record) ==
    /\ tableName \in DOMAIN tableRegistry
    /\ \E i \in 1..Len(tableRegistry[tableName].originalData) :
          CanonicalKeyOf(tableRegistry[tableName].originalData[i],
                         tableRegistry[tableName].columns)
            = CanonicalKeyOf(record, tableRegistry[tableName].columns)

\* the top-level fields of the input that hold a record
RootRecords ==
    IF parsedData.t # "obj" THEN {}
    ELSE {[context |-> parsedData.kids[i].k, value |-> parsedData.kids[i].v] :
            i \in {k \in 1..Len(parsedData.kids) : parsedData.kids[k].v.t = "obj"}}

\* C8: two identical records met under two different context keys, neither
\* renamed, are registered in two different tables, each holding a row for it;
\* in particular every record under a top-level key has a row in the table
\* named after that key.
C8_DedupPerTable ==
    /\ \A g, h \in Registered :
          (/\ g.value = h.value /\ g.context # h.context
           /\ g.context \notin DOMAIN tableStructure
           /\ h.context \notin DOMAIN tableStructure) =>
              /\ g.tableName = "@" \o g.context
              /\ h.tableName = "@" \o h.context
              /\ HoldsRowFor(g.tableName, g.value)
              /\ HoldsRowFor(h.tableName, h.value)
    /\ TraversalOver =>
          \A g \in RootRecords :
              g.context \notin DOMAIN tableStructure =>
                  HoldsRowFor("@" \o g.context, g.value)

\* the same record was registered under two contexts, in two tables
C8_Witness ==
    \E g, h \in Registered :
        /\ g.value = h.value /\ g.tableName # h.tableName
        /\ g.context \notin DOMAIN tableStructure
        /\ h.context \notin DOMAIN tableStructure
        /\ HoldsRowFor(g.tableName, g.value)
        /\ HoldsRowFor(h.tableName, h.value)
        /\ \E a, b \in RootRecords : a.value = b.value /\ a.context # b.context

\* the registry and the cache are left as they are by a step
RegistryUntouched ==
    UNCHANGED <<tableRegistry, tableOrder, objectToIndexMap, maps, tableIndexCounters,
                arrayReferenceCache>>

\* the value was processed to the end earlier in this traversal
ProcessedBefore(value) ==
    \/ \E h \in hist.objects : h.value = value
    \/ \E h \in hist.arrays : h.value = value

\* C9 as stated: processing a record or a list that was already processed
\* anywhere in the traversal creates no table, merges no schema, appends no
\* row and returns at once.
C9_MemoizedEverywhere ==
    [][(Running("processValue") /\ IsObjectLike(Top.value) /\ ProcessedBefore(Top.value))
          => (RegistryUntouched /\ stack' = Pop)]_vars

\* C9, lists only: processing a list whose serialization is a key of the
\* reference cache creates no table, merges no schema, appends no row, leaves
\* the cached reference as it is and returns at once; a record is never
\* skipped: it is registered in the table of the context it is met under.
C9_MemoizedLists ==
    [][Running("processValue") =>
          /\ (IsArray(Top.value) /\ Stringify(Top.value) \in DOMAIN arrayReferenceCache)
                => (RegistryUntouched /\ stack' = Pop)
          /\ Top.value.t = "obj" =>
                /\ Len(stack') = Len(stack)
                /\ stack'[Len(stack')].fn = "processObjectValue"
                /\ resolveTableName(Top.context) \in DOMAIN tableRegistry'
    ]_vars

\* a list was met a second time and skipped, and a record that had been
\* processed under one context was registered again under another
C9_Witness ==
    /\ \E h \in hist.hits : IsArray(h.value) /\ ~IsLiteralArray(h.value)
    /\ \E g, h \in hist.objects : g.value = h.value /\ g.tableName # h.tableName

\* the field of source record r of a table that cell c of its row renders
CellSource(name, r, c) ==
    Get(tableRegistry[name].originalData[r], registryLog.rowColumns[name][r][c])

\* C10: a record array is registered by one traversal of it only (no second
\* traversal of the same serialization is ever recorded), and every cell and
\* every root line that renders an occurrence of it holds the one reference
\* text of the cache.
C10_SharedArrayOnce ==
    /\ \A g, h \in hist.arrays : g.value = h.value => g = h
    /\ \A name \in DOMAIN tableRegistry :
          \A r \in 1..Len(tableRegistry[name].rows) :
              \A c \in 1..Len(tableRegistry[name].rows[r]) :
                  LET value == CellSource(name, r, c)
                      cell == tableRegistry[name].rows[r][c]
                  IN  (tableRegistry[name].originalData[r].t = "obj" /\ IsArray(value)) =>
                          /\ Stringify(value) \in DOMAIN arrayReferenceCache
                          /\ IF pc = "compacted"
                             THEN CompactReference(cell, tableRegistry)
                                    = arrayReferenceCache[Stringify(value)]
                             ELSE cell = arrayReferenceCache[Stringify(value)]
    /\ (pc = "done" /\ parsedData.t = "obj") =>
          \A i \in 1..Len(parsedData.kids) :
              LET value == parsedData.kids[i].v
                  line == output.root[i]
              IN  (IsArray(value) /\ line.kind = "ref") =>
                      line.text = arrayReferenceCache[Stringify(value)]

\* one record array occurred twice: its second occurrence was skipped, and two
\* rows hold a cell rendering it
C10_Witness ==
    \E h \in hist.hits :
        /\ IsArray(h.value) /\ ~IsLiteralArray(h.value)
        /\ \E name \in DOMAIN tableRegistry :
              \E r1, r2 \in 1..Len(tableRegistry[name].rows) :
                  /\ r1 # r2
                  /\ \E c \in 1..Len(tableRegistry[name].rows[r1]) :
                        /\ c <= Len(tableRegistry[name].rows[r2])
                        /\ CellSource(name, r1, c) = h.value
                        /\ CellSource(name, r2, c) = h.value
                        /\ tableRegistry[name].rows[r1][c] = tableRegistry[name].rows[r2][c]
        /\ pc = "done"

\* the engine as parse(data, config) leaves it on a fresh instance when it
\* calls processValue: nothing of an earlier call is left in any field
EngineAtEntry ==
    /\ tableRegistry = NoEntries
    /\ tableOrder = <<>>
    /\ arrayReferenceCache = NoEntries
    /\ tableIndexCounters = NoEntries
    /\ objectToIndexMap = NoEntries
    /\ maps = <<>>
    /\ rootLevelKeys = (IF parsedData.t = "obj" THEN Range(ObjectKeys(parsedData)) ELSE {})
    /\ stack = <<Call(parsedData, "root")>>
    /\ output = NoOutput

\* C11: whatever calls ran before (returned or raised), parse enters the
\* traversal with every field of the engine as on a fresh instance, and a call
\* that repeats the data and configuration of the call before it returns the
\* same output.
C11_Stateless ==
    /\ [](pc = "done" /\ hist.fresh # <<>> => output = hist.fresh[1])
    /\ [][calls' # calls => EngineAtEntry']_vars

\* a second call with the data and configuration of the first has returned
\* an output that holds a table
C11_Witness ==
    /\ pc = "done" /\ calls >= 2 /\ hist.fresh # <<>>
    /\ Len(output.tables) > 0

RECURSIVE Subvalues(_)
\* a value and every value nested in it
Subvalues(v) == {v} \cup UNION {Subvalues(v.kids[i].v) : i \in 1..Len(v.kids)}

\* C12: within one call no step changes the input or the configuration, and
\* every value the engine holds a reference to (the value of every pending
\* call, every stored source record) is a value of the input tree as it was
\* passed in: same keys, key order, elements and values.
C12_InputNotMutated ==
    /\ [][calls' = calls =>
            /\ parsedData' = parsedData
            /\ defaultValues' = defaultValues
            /\ tableStructure' = tableStructure]_vars
    /\ [](/\ \A k \in 1..Len(stack) : stack[k].value \in Subvalues(parsedData)
          /\ \A name \in DOMAIN tableRegistry :
                \A i \in 1..Len(tableRegistry[name].originalData) :
                    tableRegistry[name].originalData[i] \in Subvalues(parsedData))

\* a call returned after storing a record whose keys are not in column order
\* and which lacks a column that has a configured default
C12_Witness ==
    /\ pc = "done"
    /\ \E name \in DOMAIN tableRegistry :
          \E i, k \in 1..Len(tableRegistry[name].originalData) :
              LET record == tableRegistry[name].originalData[i]
                  other == tableRegistry[name].originalData[k]
              IN  /\ record.t = "obj" /\ other.t = "obj"
                  /\ ObjectKeys(record) # sortColumnNames(ObjectKeys(record))
                  /\ \E c \in DOMAIN defaultValues :
                        c \in Range(tableRegistry[name].columns) /\ ~HasKey(other, c)

\* C13: in every reachable state each table has as many rows as source
\* records, and row i is the rendering of source record i under the table's
\* current column list: one cell per column, the cell of a scalar field being
\* the text of that field.
C13_RowsRenderRecords ==
    \A name \in DOMAIN tableRegistry :
        LET table == tableRegistry[name]
        IN  /\ Len(table.rows) = Len(table.originalData)
            /\ \A i \in 1..Len(table.rows) :
                  LET normalizedRow == applyDefaultsToRow(table.originalData[i], table.columns)
                  IN  \A c \in 1..Len(table.columns) :
                        /\ c <= Len(table.rows[i])
                        /\ ~TypeofObject(normalizedRow[table.columns[c]]) =>
                              table.rows[i][c] =
                                  serializePrimitive(normalizedRow[table.columns[c]])

\* the dependency graph of the registered tables and the order computed from it
DependencyGraph == buildDependencyGraph(tableRegistry)
EmissionOrder == computeTopologicalOrder(tableRegistry, tableOrder)

\* the registered tables a table depends on
DependsOn(name) == Range(DependencyGraph[name]) \cap DOMAIN tableRegistry

RECURSIVE ReachableIn(_, _)
\* the tables reached from a set of tables by at most n dependency edges
ReachableIn(from, n) ==
    IF n = 0 THEN from
    ELSE ReachableIn(from \cup UNION {DependsOn(name) : name \in from}, n - 1)

\* the table depends on itself through one or more edges
OnCycle(name) ==
    name \in ReachableIn(DependsOn(name), Cardinality(DOMAIN tableRegistry))

\* every registered table is in the order exactly once
EveryTableOnce ==
    /\ Len(EmissionOrder) = Cardinality(DOMAIN tableRegistry)
    /\ Range(EmissionOrder) = DOMAIN tableRegistry

ReferencesItself(name) ==
    \E r \in 1..Len(tableRegistry[name].rows) :
        \E c \in 1..Len(tableRegistry[name].rows[r]) :
            /\ StartsWithAt(tableRegistry[name].rows[r][c])
            /\ BeforeBracket(tableRegistry[name].rows[r][c]) = name

\* C15: for every dependency graph the traversal builds, with cycles between
\* tables and with tables that reference themselves, the sort ends and its
\* order holds every registered table exactly once.
C15_SortEndsOnCycles ==
    (\E name \in DOMAIN tableRegistry : OnCycle(name) \/ ReferencesItself(name))
        => EveryTableOnce

\* two tables depend on each other, and the call returned
C15_Witness ==
    /\ pc = "done"
    /\ \E a, b \in DOMAIN tableRegistry :
          a # b /\ b \in DependsOn(a) /\ a \in DependsOn(b)

\* an empty list, or a list whose first element is a scalar, Null or a list
FirstElementNoRecord(array) ==
    IF Len(array.kids) = 0 THEN TRUE ELSE array.kids[1].v.t # "obj"

\* a text that opens and closes with a bracket
IsBracketLiteral(text) ==
    Len(text) >= 2 /\ text[1] = "[" /\ text[Len(text)] = "]"

\* C16: processing an empty list, or a list whose first element is a scalar,
\* Null or a list, creates no table, merges no schema, appends no row and
\* returns at once, whatever the later elements are; the rendering the cache
\* then holds for it is a bracket literal.
C16_FirstElementSniffing ==
    [][(Running("processValue") /\ IsArray(Top.value) /\ FirstElementNoRecord(Top.value)) =>
          /\ UNCHANGED <<tableRegistry, tableOrder, objectToIndexMap, maps,
                         tableIndexCounters>>
          /\ stack' = Pop
          /\ Stringify(Top.value) \in DOMAIN arrayReferenceCache'
          /\ IsBracketLiteral(arrayReferenceCache'[Stringify(Top.value)])
    ]_vars

\* a list that opens with a scalar and holds a record further on was rendered
\* as a bracket literal, and no table was registered for the key it is under
C16_Witness ==
    /\ pc = "done"
    /\ \E i \in 1..Len(parsedData.kids) :
          LET array == parsedData.kids[i].v
          IN  /\ IsArray(array) /\ Len(array.kids) >= 2
              /\ array.kids[1].v.t \in {"num", "null"}
              /\ \E k \in 2..Len(array.kids) : array.kids[k].v.t = "obj"
              /\ Stringify(array) \in DOMAIN arrayReferenceCache
              /\ IsBracketLiteral(arrayReferenceCache[Stringify(array)])
              /\ parsedData.t = "obj"
              /\ resolveTableName(parsedData.kids[i].k) \notin DOMAIN tableRegistry

RECURSIVE Leaves(_)
\* the pieces a list deeper than the second level is flattened to: the raw
\* text of every scalar in it, in order, nothing for a Null, the bare object
\* tag for a record; an empty list is one empty piece
Leaves(v) ==
    CASE v.t \in {"null", "undef"} -> << <<>> >>
      [] v.t \in {"num", "bool", "str"} -> <<v.s>>
      [] v.t = "obj" -> << <<"[object Object]">> >>
      [] v.t = "arr" ->
            IF Len(v.kids) = 0 THEN << <<>> >>
            ELSE LET RECURSIVE Collect(_)
                     Collect(i) == IF i > Len(v.kids) THEN <<>>
                                   ELSE Leaves(v.kids[i].v) \o Collect(i + 1)
                 IN  Collect(1)

\* the text of one element of a sub-list: a list inside it loses its brackets
SecondLevelText(v) ==
    IF IsArray(v) THEN Join(Leaves(v), ",") ELSE serializePrimitive(v)

\* the text of one element of the list itself
FirstLevelText(v) ==
    IF IsArray(v)
    THEN <<"[">> \o Join([i \in 1..Len(v.kids) |-> SecondLevelText(v.kids[i].v)], ",")
                 \o <<"]">>
    ELSE serializePrimitive(v)

\* the lists of the input that open with a scalar, Null or a list and have a
\* cached rendering
SniffedLists ==
    {v \in Subvalues(parsedData) :
        /\ IsArray(v) /\ Len(v.kids) > 0 /\ v.kids[1].v.t # "obj"
        /\ Stringify(v) \in DOMAIN arrayReferenceCache}

CollidingTables ==
    {name \in DOMAIN tableRegistry : KeyNameOf(name) \in rootLevelKeys}

\* C18: when the call has returned, every registered table whose name equals a
\* top-level key of the input is absent from the independent table section and
\* is rendered in the root section under the header of a key that names it,
\* with the table's columns and rows.
C18_CollidingTablesInlined ==
    pc = "done" =>
        \A name \in CollidingTables :
            /\ \A i \in 1..Len(output.tables) : output.tables[i].name # name
            /\ \E i \in 1..Len(output.root) :
                  /\ output.root[i].kind = "table"
                  /\ resolveTableName(output.root[i].key) = name
                  /\ output.root[i].columns = tableRegistry[name].columns
                  /\ output.root[i].rows = tableRegistry[name].rows

\* the record and list values a resolution can be asked for: those of the
\* input and those configured as defaults
ResolvableValues ==
    {v \in Subvalues(parsedData) \cup
            UNION {Subvalues(defaultValues[c]) : c \in DOMAIN defaultValues} :
        IsObjectLike(v)}

\* the value has no cached reference and the table of the context is not
\* registered
Unknown(value, context) ==
    /\ IsObjectLike(value)
    /\ Stringify(value) \notin DOMAIN arrayReferenceCache
    /\ resolveTableName(context) \notin DOMAIN tableRegistry

\* the value cell c of row r of a table was rendered from
CellValue(name, r, c) ==
    applyDefaultsToRow(tableRegistry[name].originalData[r],
                       registryLog.rowColumns[name][r])[registryLog.rowColumns[name][r][c]]

\* C19: in every reachable state, resolving a record or list that has no
\* cached reference under a context whose table is not registered gives the
\* text null; and every cell that was rendered from such a value holds null
\* (the cache and the registry only grow, so the value was unknown when the
\* cell was rendered).
C19_UnknownTableIsNull ==
    /\ \A value \in ResolvableValues : \A context \in Range(NameOrder) :
          Unknown(value, context) =>
              resolveReference(value, context, Registry) = <<"null">>
    /\ \A name \in DOMAIN tableRegistry :
          \A r \in 1..Len(tableRegistry[name].rows) :
              \A c \in 1..Len(tableRegistry[name].rows[r]) :
                  Unknown(CellValue(name, r, c), registryLog.rowColumns[name][r][c])
                      => tableRegistry[name].rows[r][c] = <<"null">>

\* the call returned with a row whose cell was rendered from a record that had
\* no cached reference and no registered table
C19_Witness ==
    /\ pc = "done"
    /\ \E name \in DOMAIN tableRegistry :
          \E r \in 1..Len(tableRegistry[name].rows) :
              \E c \in 1..Len(tableRegistry[name].rows[r]) :
                  /\ Unknown(CellValue(name, r, c), registryLog.rowColumns[name][r][c])
                  /\ tableRegistry[name].rows[r][c] = <<"null">>

RECURSIVE SameUpToKeyOrder(_, _)
\* the two values have the same field names and equal values at every depth,
\* whatever the order their keys were inserted in
SameUpToKeyOrder(a, b) ==
    IF a.t # b.t THEN FALSE
    ELSE IF a.t = "obj"
    THEN /\ Range(ObjectKeys(a)) = Range(ObjectKeys(b))
         /\ \A key \in Range(ObjectKeys(a)) : SameUpToKeyOrder(Get(a, key), Get(b, key))
    ELSE IF a.t = "arr"
    THEN /\ Len(a.kids) = Len(b.kids)
         /\ \A i \in 1..Len(a.kids) : SameUpToKeyOrder(a.kids[i].v, b.kids[i].v)
    ELSE a = b

\* C20: two records of one array that differ only in the order their keys, or
\* the keys of their nested records, were inserted in resolve to the same row
\* of the array's table.
C20_KeyOrderIrrelevant ==
    \A h \in hist.arrays :
        \A i, k \in 1..Len(h.value.kids) :
            LET a == h.value.kids[i].v
                b == h.value.kids[k].v
            IN  (a.t = "obj" /\ a # b /\ SameUpToKeyOrder(a, b))
                    => h.rowIndices[i] = h.rowIndices[k]

\* a step that enters processObjectValue or processArrayValue: the table of the
\* context has just been registered or merged
Registers ==
    /\ Running("processValue")
    /\ Len(stack') = Len(stack)
    /\ stack'[Len(stack')].fn \in {"processObjectValue", "processArrayValue"}

\* the step registers into the table `expected` and creates no other table
RegistersInto(expected) ==
    /\ stack'[Len(stack')].tableName = expected
    /\ expected \in DOMAIN tableRegistry'
    /\ DOMAIN tableRegistry' = DOMAIN tableRegistry \cup {expected}

\* C21, as stated: when tableStructure maps the context key k to a name n, a
\* record or record array met under k is registered in table @n and no table
\* @k is created for it; a context with no mapping uses the table @k
C21_MappedContextRenamed ==
    [][Registers =>
        RegistersInto(IF Top.context \in DOMAIN tableStructure
                      THEN "@" \o tableStructure[Top.context]
                      ELSE "@" \o Top.context)]_vars

\* C21, amended: the mapping renames the table when the mapped name is not the
\* empty string; a context mapped to the empty string, like a context with no
\* mapping, uses the table named after the key
C21_NonEmptyMappingRenames ==
    [][Registers =>
        RegistersInto(IF /\ Top.context \in DOMAIN tableStructure
                         /\ tableStructure[Top.context] # ""
                      THEN "@" \o tableStructure[Top.context]
                      ELSE "@" \o Top.context)]_vars

\* C21 witness: a call has returned in which records were registered under the
\* mapped context `users`; the table @people exists and @users does not
C21_Witness ==
    /\ pc = "done"
    /\ "users" \in DOMAIN tableStructure
    /\ \E h \in hist.arrays : h.context = "users" /\ h.tableName = "@people"
    /\ "@people" \in DOMAIN tableRegistry /\ "@users" \notin DOMAIN tableRegistry
    /\ Len(tableRegistry["@people"].rows) > 0

\* records a and b have the same fields with the same values, but for fields
\* that one of them lacks and the other holds as null, of which there is one
AbsentOrNull(a, b) ==
    /\ a.t = "obj" /\ b.t = "obj"
    /\ \A key \in Range(ObjectKeys(a)) \cup Range(ObjectKeys(b)) :
          Coalesce(Get(a, key), Null) = Coalesce(Get(b, key), Null)
    /\ \E key \in Range(ObjectKeys(a)) \cup Range(ObjectKeys(b)) :
          \/ HasKey(a, key) /\ Get(a, key) = Null /\ ~HasKey(b, key)
          \/ HasKey(b, key) /\ Get(b, key) = Null /\ ~HasKey(a, key)

DefaultOrNull(c) ==
    IF c \in DOMAIN defaultValues /\ ~Nullish(defaultValues[c])
    THEN defaultValues[c] ELSE Null

\* C23, as stated: for every record stored in a table and every column of the
\* table, the normalized value is the record's own value when the key is
\* present, null included; else the configured default; else null
C23_NullWinsOverDefault ==
    \A name \in DOMAIN tableRegistry :
        LET table == tableRegistry[name]
        IN  \A r \in 1..Len(table.originalData) : \A c \in Range(table.columns) :
                LET record == table.originalData[r]
                IN  record.t = "obj" =>
                        applyDefaultsToRow(record, table.columns)[c] =
                            IF HasKey(record, c) THEN Get(record, c)
                            ELSE DefaultOrNull(c)

\* C23, amended: the normalized value is the record's own value when the key
\* is present with a value other than null; when the key is absent or holds
\* null it is the configured default, and null when there is no default
C23_DefaultReplacesNull ==
    \A name \in DOMAIN tableRegistry :
        LET table == tableRegistry[name]
        IN  \A r \in 1..Len(table.originalData) : \A c \in Range(table.columns) :
                LET record == table.originalData[r]
                IN  record.t = "obj" =>
                        applyDefaultsToRow(record, table.columns)[c] =
                            IF HasKey(record, c) /\ Get(record, c) # Null
                            THEN Get(record, c)
                            ELSE DefaultOrNull(c)

\* C23 witness: a call has returned that stored a record whose field `b` is
\* null in a table with column `b`, a default for `b` being configured; the
\* cell of the row shows the default
C23_Witness ==
    /\ pc = "done"
    /\ "b" \in DOMAIN defaultValues
    /\ \E name \in DOMAIN tableRegistry :
          LET table == tableRegistry[name]
          IN  /\ Len(table.originalData) > 0
              /\ table.columns = <<"id", "b">>
              /\ HasKey(table.originalData[1], "b")
              /\ Get(table.originalData[1], "b") = Null
              /\ table.rows[1][2] = serializePrimitive(defaultValues["b"])

\* the dedup index of a table: the map objectToIndexMap holds for it now
DedupIndex(name) == maps[objectToIndexMap[name]]

\* no table holds two rows whose source records have one canonical key under
\* the table's current columns
NoDuplicateRows ==
    \A name \in DOMAIN tableRegistry :
        LET table == tableRegistry[name]
        IN  \A r, q \in 1..Len(table.originalData) :
                CanonicalKeyOf(table.originalData[r], table.columns)
                    = CanonicalKeyOf(table.originalData[q], table.columns) => r = q

\* the dedup index maps the canonical key of every row's source record, under
\* the current columns, to the index of that row
IndexCoversRows ==
    \A name \in DOMAIN tableRegistry :
        LET table == tableRegistry[name]
        IN  \A r \in 1..Len(table.originalData) :
                LET key == CanonicalKeyOf(table.originalData[r], table.columns)
                IN  /\ key \in DOMAIN DedupIndex(name)
                    /\ DedupIndex(name)[key] = r - 1

\* a step that finishes a record: an element of a record array, or a bare record
FinishesRecord ==
    /\ pc' = "process"
    /\ \/ /\ Running("processArrayValue")
          /\ Top.i <= Len(Top.value.kids) /\ Top.j > Len(Top.columns)
       \/ /\ Running("processObjectValue")
          /\ Top.j > Len(Top.columns)

\* the record such a step finishes
FinishedRecord ==
    IF Top.fn = "processArrayValue" THEN Top.value.kids[Top.i].v ELSE Top.value

\* C24: in every reachable state no table holds two rows with one canonical
\* key under its current columns and the dedup index maps the key of every
\* row's source record to the row's index; a record whose key the index holds
\* appends nothing and, in an array, resolves to the index held
C24_DedupIndexInvariant ==
    /\ [](NoDuplicateRows /\ IndexCoversRows)
    /\ [][FinishesRecord =>
            LET table == tableRegistry[Top.tableName]
                key == CanonicalKeyOf(FinishedRecord, table.columns)
            IN  key \in DOMAIN DedupIndex(Top.tableName) =>
                    /\ tableRegistry' = tableRegistry
                    /\ Top.fn = "processArrayValue" =>
                         stack'[Len(stack')].rowIndices =
                            Append(Top.rowIndices, DedupIndex(Top.tableName)[key])]_vars

\* the keys of a record, or of all the record elements of an array
KeysOf(value) ==
    IF value.t = "obj" THEN Range(ObjectKeys(value))
    ELSE UNION {Range(ObjectKeys(value.kids[i].v)) :
                    i \in {k \in 1..Len(value.kids) : value.kids[k].v.t = "obj"}}

\* the column set of a table, empty for a table that does not exist
ColumnSet(reg, name) == IF name \in DOMAIN reg THEN Range(reg[name].columns) ELSE {}

\* C25: registering a record or a record array makes the column set of its
\* table the union of the previous column set and the keys of the record, or
\* of all the record elements of the array; within one call no table ever
\* loses a column; and a table is rebuilt (its dedup index replaced) exactly
\* in a registration that changes its columns
C25_ColumnsAreUnion ==
    [][/\ Registers =>
            LET name == stack'[Len(stack')].tableName
            IN  /\ ColumnSet(tableRegistry', name)
                     = ColumnSet(tableRegistry, name) \cup KeysOf(Top.value)
                /\ stack'[Len(stack')].columns = tableRegistry'[name].columns
       /\ calls' = calls =>
            \A name \in DOMAIN tableRegistry :
                /\ name \in DOMAIN tableRegistry'
                /\ ColumnSet(tableRegistry, name) \subseteq ColumnSet(tableRegistry', name)
                /\ objectToIndexMap'[name] # objectToIndexMap[name]
                     <=> tableRegistry'[name].columns # tableRegistry[name].columns
                /\ tableRegistry'[name].columns # tableRegistry[name].columns
                     => Registers /\ stack'[Len(stack')].tableName = name]_vars

\* C25 witness: a call has returned in which a table was rebuilt and in which
\* a record array brought a column that its first element does not have
C25_Witness ==
    /\ pc = "done"
    /\ registryLog.rebuilt # {}
    /\ \E h \in hist.arrays :
          /\ Len(h.value.kids) > 1
          /\ h.value.kids[1].v.t = "obj"
          /\ KeysOf(h.value) \ KeysOf(h.value.kids[1].v) # {}
          /\ KeysOf(h.value) \subseteq ColumnSet(tableRegistry, h.tableName)

\* there is a dependency path of one or more edges from table a to table b
PathBetween(a, b) ==
    b \in ReachableIn(DependsOn(a), Cardinality(DOMAIN tableRegistry))

\* C26, as stated: once the traversal is over, two tables with no dependency
\* path between them in either direction stand in the computed emission order as they stand in the registration
\* order, the order in which the graph is iterated
C26_StableTieBreak ==
    TraversalOver => \A a, b \in DOMAIN tableRegistry :
        (a # b /\ ~PathBetween(a, b) /\ ~PathBetween(b, a)) =>
            (IndexOf(EmissionOrder, a) < IndexOf(EmissionOrder, b)
                <=> IndexOf(tableOrder, a) < IndexOf(tableOrder, b))

RECURSIVE Discover(_, _)
RECURSIVE DiscoverEach(_, _, _)
\* the tables in the order in which a depth-first visit first reaches them:
\* `seen` is extended by the node and then by what its dependencies reach
Discover(node, seen) ==
    IF node \in Range(seen) THEN seen
    ELSE DiscoverEach(DependencyGraph[node], 1, Append(seen, node))
DiscoverEach(nodes, k, seen) ==
    IF k > Len(nodes) THEN seen
    ELSE DiscoverEach(nodes, k + 1,
                      IF nodes[k] \in DOMAIN tableRegistry THEN Discover(nodes[k], seen)
                      ELSE seen)

\* the visit started from every table in registration order
DiscoveryOrder ==
    LET RECURSIVE From(_, _)
        From(k, seen) ==
            IF k > Len(tableOrder) THEN seen
            ELSE From(k + 1, Discover(tableOrder[k], seen))
    IN  From(1, <<>>)

\* C26, amended: once the traversal is over, two tables with no dependency
\* path between them in either direction stand in the emission order as the depth-first visit first
\* reaches them, the visit starting from the tables in registration order and
\* following each table's dependencies in the order of its cells
C26_TiesInVisitOrder ==
    TraversalOver => \A a, b \in DOMAIN tableRegistry :
        (a # b /\ ~PathBetween(a, b) /\ ~PathBetween(b, a)) =>
            (IndexOf(EmissionOrder, a) < IndexOf(EmissionOrder, b)
                <=> IndexOf(DiscoveryOrder, a) < IndexOf(DiscoveryOrder, b))

\* C26 witness: a call has returned with two tables that no path connects,
\* the one registered first emitted after the other
C26_Witness ==
    /\ pc = "done"
    /\ \E a, b \in DOMAIN tableRegistry :
          /\ a # b /\ ~PathBetween(a, b) /\ ~PathBetween(b, a)
          /\ IndexOf(tableOrder, a) < IndexOf(tableOrder, b)
          /\ IndexOf(EmissionOrder, b) < IndexOf(EmissionOrder, a)

\* cell c of row r of table a is a reference into table b: it was rendered
\* from a record or a list and its text names b
ReferenceInto(a, r, c, b) ==
    /\ IsObjectLike(CellValue(a, r, c))
    /\ StartsWithAt(tableRegistry[a].rows[r][c])
    /\ BeforeBracket(tableRegistry[a].rows[r][c]) = b

\* C27: once the traversal is over, the dependency graph has an edge from
\* table a to b exactly when b differs from a and some cell of some row of a
\* is a reference into b; a cell rendered from a scalar of the input gives no
\* edge, and no table has an edge to itself
C27_EdgesAreReferences ==
    TraversalOver =>
        \A a \in DOMAIN tableRegistry :
            /\ a \notin Range(DependencyGraph[a])
            /\ \A b \in AtTokens \cup DOMAIN tableRegistry :
                  b \in Range(DependencyGraph[a]) <=>
                      /\ b # a
                      /\ \E r \in 1..Len(tableRegistry[a].rows) :
                            \E c \in 1..Len(tableRegistry[a].rows[r]) :
                                ReferenceInto(a, r, c, b)

\* C28: before compaction, the reference memoized for a record array of k
\* elements is the table of the array with exactly k indices, the j-th index
\* being the row whose source record is canonically equal to the j-th element;
\* elements that are the same record have the same index
C28_IndicesInElementOrder ==
    pc = "process" =>
        \A h \in hist.arrays :
            LET table == tableRegistry[h.tableName]
            IN  /\ arrayReferenceCache[Stringify(h.value)]
                     = RefText(h.tableName, h.rowIndices)
                /\ Len(h.rowIndices) = Len(h.value.kids)
                /\ \A j \in 1..Len(h.rowIndices) :
                      /\ h.rowIndices[j] < Len(table.originalData)
                      /\ CanonicalKeyOf(table.originalData[h.rowIndices[j] + 1],
                                        table.columns)
                           = CanonicalKeyOf(h.value.kids[j].v, table.columns)
                /\ \A i, j \in 1..Len(h.rowIndices) :
                      h.value.kids[i].v = h.value.kids[j].v
                          => h.rowIndices[i] = h.rowIndices[j]

\* C29: whenever a row is appended for a record, every field of the record
\* that holds a record or a list has been processed before (its reference is
\* memoized or the table of its key is registered); and no cell rendered from
\* a record or a list that the source record holds shows the null of an
\* unknown table
C29_RegistrationPrecedesResolution ==
    /\ [](\A name \in DOMAIN tableRegistry :
            \A r \in 1..Len(tableRegistry[name].rows) :
                \A c \in 1..Len(tableRegistry[name].rows[r]) :
                    IsObjectLike(CellSource(name, r, c))
                        => tableRegistry[name].rows[r][c] # <<"null">>)
    /\ [][(FinishesRecord /\ tableRegistry' # tableRegistry /\ FinishedRecord.t = "obj") =>
            \A key \in Range(ObjectKeys(FinishedRecord)) :
                ~Unknown(Get(FinishedRecord, key), key)]_vars

\* C29 witness: a call has returned with a row whose source record holds a
\* record under one key and a list of records under another, both rendered as
\* references
C29_Witness ==
    /\ pc = "done"
    /\ \E name \in DOMAIN tableRegistry :
          \E r \in 1..Len(tableRegistry[name].rows) :
              \E c, d \in 1..Len(tableRegistry[name].rows[r]) :
                  /\ CellSource(name, r, c).t = "obj"
                  /\ IsArray(CellSource(name, r, d))
                  /\ ~IsLiteralArray(CellSource(name, r, d))
                  /\ StartsWithAt(tableRegistry[name].rows[r][c])
                  /\ StartsWithAt(tableRegistry[name].rows[r][d])

\* the reference denotes the whole table of the key: it names the table the
\* key resolves to, bare or with indices that cover every row of the table
DenotesWholeTable(reference, key) ==
    /\ MatchesTableReference(reference)
    /\ reference[1] = resolveTableName(key)
    /\ reference[1] \in DOMAIN tableRegistry
    /\ \/ Len(reference) = 1
       \/ /\ MatchesIndexed(reference)
          /\ Range(MatchedIndices(reference))
               = {r - 1 : r \in 1..Len(tableRegistry[reference[1]].rows)}

\* C30: when the call has returned for a record, a top-level key whose value
\* is a record or a list stands in the root section as an embedded table
\* exactly when its resolved reference denotes the whole table of the key;
\* otherwise it stands as the line `#key: reference`
C30_EmbeddedOnlyWhenWholeTable ==
    (pc = "done" /\ parsedData.t = "obj") =>
        \A i \in 1..Len(output.root) :
            LET key == parsedData.kids[i].k
                value == parsedData.kids[i].v
                reference == resolveReference(value, key, Registry)
            IN  IsObjectLike(value) =>
                    IF DenotesWholeTable(reference, key)
                    THEN output.root[i].kind = "table"
                    ELSE /\ output.root[i].kind = "ref"
                         /\ output.root[i].key = key
                         /\ output.root[i].text = reference

\* C31: no call of parse raises an error: whatever the input, the traversal
\* never ends in a thrown TypeError
C31_NeverThrows == pc # "threw"

\* the row indices a reference text names: those between its brackets, or
\* every row of the table for a bare table name
IndicesOf(text) ==
    IF Len(text) = 1
    THEN [r \in 1..Len(tableRegistry[text[1]].rows) |-> r - 1]
    ELSE MatchedIndices(text)

\* a text that names a table names a registered one, and its indices are
\* numbers within 0..rowCount-1 of that table
IndicesInRange(text) ==
    StartsWithAt(text) =>
        /\ text[1] \in DOMAIN tableRegistry
        /\ Len(text) = 1 \/ MatchesIndexed(text)
        /\ \A k \in 1..Len(IndicesOf(text)) :
              IndicesOf(text)[k] < Len(tableRegistry[text[1]].rows)

\* the reference text was created for the record: it names one row, and the
\* source record stored there is canonically equal to the record
RefersTo(text, record) ==
    StartsWithAt(text) =>
        /\ IndicesInRange(text)
        /\ Len(IndicesOf(text)) = 1
        /\ LET table == tableRegistry[text[1]]
           IN  CanonicalKeyOf(table.originalData[IndicesOf(text)[1] + 1], table.columns)
                  = CanonicalKeyOf(record, table.columns)

\* C32: when the call has returned, every index of every reference, in the
\* cells and in the reference cache, is within the rows of the table it
\* names, and a cell rendered from a record names the row that stores that
\* record
C32_ReferencesPointAtTheirRecords ==
    pc = "done" =>
        /\ \A cacheKey \in DOMAIN arrayReferenceCache :
              IndicesInRange(arrayReferenceCache[cacheKey])
        /\ \A name \in DOMAIN tableRegistry :
              \A r \in 1..Len(tableRegistry[name].rows) :
                  \A c \in 1..Len(tableRegistry[name].rows[r]) :
                      LET value == CellValue(name, r, c)
                          text == tableRegistry[name].rows[r][c]
                      IN  /\ IsObjectLike(value) => IndicesInRange(text)
                          /\ value.t = "obj" => RefersTo(text, value)

\* the positions of the table section that emit the table
TableBlocks(name) == {i \in 1..Len(output.tables) : output.tables[i].name = name}

\* the positions of the root section that embed the table under a key
RootBlocks(name) ==
    {i \in 1..Len(output.root) :
        /\ output.root[i].kind = "table"
        /\ resolveTableName(output.root[i].key) = name}

\* C33: when the call has returned, every registered table is emitted at
\* most once: no table stands both as an @name block in the table section
\* and as a #key{...} block in the root section, and none stands twice in
\* one section
C33_EmittedAtMostOnce ==
    pc = "done" =>
        \A name \in DOMAIN tableRegistry :
            /\ ~(TableBlocks(name) # {} /\ RootBlocks(name) # {})
            /\ Cardinality(TableBlocks(name)) + Cardinality(RootBlocks(name)) <= 1

====
